---- MODULE Spec2Model ----
(***************************************************************************)
(* Model of the POST /workout service of src/main.py: request validation   *)
(* against ExerciseHistory, message composition, the call to the external  *)
(* completion service through chat_completion_request (wrapped by the      *)
(* tenacity retry decorator), the extraction of the tool-call arguments    *)
(* with json.loads and the HTTP response.                                  *)
(*                                                                         *)
(* JSON texts are sequences of tokens; json.loads is a recursive-descent   *)
(* parser over them and the response body is produced by a serialiser, so  *)
(* that the round trip is computed and not assumed.                        *)
(***************************************************************************)
EXTENDS Integers, Sequences, FiniteSets, TLC

(* ------------------------------ bounds --------------------------------- *)

\* number of HTTP requests the clients send to the one server process
MaxRequests == 2

\* longest `activities` array the stub service puts in a reply
MaxActivities == 2

Reqs == 1..MaxRequests

(* ------------------------- module-level objects ------------------------ *)

GPT_MODEL == "gpt-4o"

TOOLS ==
  << [type |-> "function",
      function |-> [name |-> "get_workout_program",
                    description |-> "Generate a workout program based on user data",
                    parameters |-> "object{activities: array of activity}"]] >>

SYSTEM_PROMPT == "Create a system to analyze user exercise history ..."

client == "OpenAI()"

\* stop=stop_after_attempt(3)
stop_after_attempt == 3

(* ------------------------------ JSON values ---------------------------- *)

\* A parsed JSON value (what json.loads returns), one record shape for all:
\*   t  : "str" | "int" | "null" | "arr" | "obj"
\*   s  : the text of a str
\*   n  : the value of an int
\*   ks : the keys of a dict, in insertion order
\*   xs : the items of a list, or the values of a dict (aligned with ks)
JStr(s) == [t |-> "str", s |-> s, n |-> 0, ks |-> <<>>, xs |-> <<>>]
JInt(n) == [t |-> "int", s |-> "", n |-> n, ks |-> <<>>, xs |-> <<>>]
JNull == [t |-> "null", s |-> "", n |-> 0, ks |-> <<>>, xs |-> <<>>]
JArr(xs) == [t |-> "arr", s |-> "", n |-> 0, ks |-> <<>>, xs |-> xs]
JObj(ks, xs) == [t |-> "obj", s |-> "", n |-> 0, ks |-> ks, xs |-> xs]

\* string literals of the JSON texts: token |-> decoded str
StringLiterals ==
  ( "\"activities\"" :> "activities" @@ "\"activityName\"" :> "activityName" @@
    "\"description\"" :> "description" @@ "\"day\"" :> "day" @@
    "\"sets\"" :> "sets" @@ "\"reps\"" :> "reps" @@
    "\"Squats\"" :> "Squats" @@ "\"Bench Press\"" :> "Bench Press" @@
    "\"Upper Body Strength\"" :> "Upper Body Strength" @@
    "\"Monday\"" :> "Monday" @@ "\"Tuesday\"" :> "Tuesday" @@
    "\"note\"" :> "note" @@ "\"plan\"" :> "plan" )

\* integer literals of the JSON texts: token |-> int
IntLiterals == ( "4" :> 4 @@ "12" :> 12 @@ "0" :> 0 )

IndexOf(seq, x) == CHOOSE i \in 1..Len(seq) : seq[i] = x

\* d[k] = v on a Python dict: a repeated key keeps its place and takes the new value
DictSet(ks, xs, k, v) ==
  IF \E i \in 1..Len(ks) : ks[i] = k
    THEN [ks |-> ks, xs |-> [xs EXCEPT ![IndexOf(ks, k)] = v]]
    ELSE [ks |-> Append(ks, k), xs |-> Append(xs, v)]

Fail == [ok |-> FALSE, v |-> JNull, i |-> 0]
Ok(v, i) == [ok |-> TRUE, v |-> v, i |-> i]

Tok(toks, i) == IF i <= Len(toks) THEN toks[i] ELSE "<eof>"

RECURSIVE ParseValue(_, _)
RECURSIVE ParseItems(_, _, _)
RECURSIVE ParseMembers(_, _, _, _)

\* the items of a list after "[" or ",": value ("," value)* "]"
ParseItems(toks, i, xs) ==
  LET r == ParseValue(toks, i) IN
  IF ~r.ok THEN Fail
  ELSE IF Tok(toks, r.i) = "," THEN ParseItems(toks, r.i + 1, Append(xs, r.v))
  ELSE IF Tok(toks, r.i) = "]" THEN Ok(JArr(Append(xs, r.v)), r.i + 1)
  ELSE Fail

\* the members of a dict after "{" or ",": str ":" value ("," str ":" value)* "}"
ParseMembers(toks, i, ks, xs) ==
  IF Tok(toks, i) \notin DOMAIN StringLiterals \/ Tok(toks, i + 1) # ":" THEN Fail
  ELSE
    LET r == ParseValue(toks, i + 2) IN
    IF ~r.ok THEN Fail
    ELSE
      LET d == DictSet(ks, xs, StringLiterals[Tok(toks, i)], r.v) IN
      IF Tok(toks, r.i) = "," THEN ParseMembers(toks, r.i + 1, d.ks, d.xs)
      ELSE IF Tok(toks, r.i) = "}" THEN Ok(JObj(d.ks, d.xs), r.i + 1)
      ELSE Fail

ParseValue(toks, i) ==
  LET c == Tok(toks, i) IN
  IF c \in DOMAIN StringLiterals THEN Ok(JStr(StringLiterals[c]), i + 1)
  ELSE IF c \in DOMAIN IntLiterals THEN Ok(JInt(IntLiterals[c]), i + 1)
  ELSE IF c = "null" THEN Ok(JNull, i + 1)
  ELSE IF c = "[" THEN
    IF Tok(toks, i + 1) = "]" THEN Ok(JArr(<<>>), i + 2)
    ELSE ParseItems(toks, i + 1, <<>>)
  ELSE IF c = "{" THEN
    IF Tok(toks, i + 1) = "}" THEN Ok(JObj(<<>>, <<>>), i + 2)
    ELSE ParseMembers(toks, i + 1, <<>>, <<>>)
  ELSE Fail

\* json.loads(s): the value, or JSONDecodeError (also on trailing data)
json_loads(s) ==
  LET r == ParseValue(s, 1) IN
  IF r.ok /\ r.i = Len(s) + 1 THEN [ok |-> TRUE, v |-> r.v]
  ELSE [ok |-> FALSE, v |-> JNull]

Quote(s) == CHOOSE q \in DOMAIN StringLiterals : StringLiterals[q] = s
Repr(n) == CHOOSE q \in DOMAIN IntLiterals : IntLiterals[q] = n

RECURSIVE json_dumps(_)
RECURSIVE DumpItems(_, _)
RECURSIVE DumpMembers(_, _, _)

DumpItems(xs, i) ==
  IF i > Len(xs) THEN <<>>
  ELSE (IF i > 1 THEN <<",">> ELSE <<>>) \o json_dumps(xs[i]) \o DumpItems(xs, i + 1)

DumpMembers(ks, xs, i) ==
  IF i > Len(ks) THEN <<>>
  ELSE (IF i > 1 THEN <<",">> ELSE <<>>) \o <<Quote(ks[i]), ":">>
         \o json_dumps(xs[i]) \o DumpMembers(ks, xs, i + 1)

\* the JSON text the framework writes for a returned value
json_dumps(v) ==
  CASE v.t = "str" -> <<Quote(v.s)>>
    [] v.t = "int" -> <<Repr(v.n)>>
    [] v.t = "null" -> <<"null">>
    [] v.t = "arr" -> <<"[">> \o DumpItems(v.xs, 1) \o <<"]">>
    [] v.t = "obj" -> <<"{">> \o DumpMembers(v.ks, v.xs, 1) \o <<"}">>

(* --------------------------- request bodies ---------------------------- *)

\* One field of the posted JSON body: t is "missing" (key absent),
\* "str", "num" or "arr"; s is the text of a str or of a number.
Missing == [t |-> "missing", s |-> ""]
StrField(s) == [t |-> "str", s |-> s]
NumField(s) == [t |-> "num", s |-> s]
ArrField == [t |-> "arr", s |-> ""]

\* The `data` member of the body: t is "missing", "null", "obj" or "str"
NoDataKey == [t |-> "missing", avg_split |-> Missing, avg_distance |-> Missing]
NullData == [t |-> "null", avg_split |-> Missing, avg_distance |-> Missing]
StrData == [t |-> "str", avg_split |-> Missing, avg_distance |-> Missing]
DataObj(split, distance) == [t |-> "obj", avg_split |-> split, avg_distance |-> distance]

PostBody(athlete_type, data, description) ==
  [athlete_type |-> athlete_type, data |-> data, description |-> description]

GoodData == DataObj(NumField("4.5"), NumField("10"))

\* the bodies the clients post
Bodies ==
  { PostBody(StrField("Other"), GoodData, StrField("wants to gain muscle")),
    PostBody(StrField("Runner"), NoDataKey, StrField("wants a faster 10k")),
    PostBody(StrField("Cyclist"), NullData, Missing),
    PostBody(Missing, GoodData, StrField("wants a faster 10k")),
    PostBody(StrField("Other"), NoDataKey, ArrField),
    PostBody(StrField("Runner"), DataObj(StrField("fast"), NumField("10")),
             StrField("wants a faster 10k")),
    PostBody(StrField("Runner"), DataObj(NumField("4.5"), Missing),
             StrField("wants a faster 10k")),
    PostBody(StrField("Swimmer"), StrData, StrField("wants a faster 10k")) }

NoBody == PostBody(Missing, NoDataKey, Missing)

(* ----------------------------- validation ------------------------------ *)

\* JSON number text |-> repr of the Python float it becomes
FloatLiterals == ( "4.5" :> "4.5" @@ "10" :> "10.0" )

\* a field annotated `str`: only a string is accepted
IsStr(f) == f.t = "str"

\* a field annotated `float`: a number, or a string that reads as a number
IsFloat(f) == f.t \in {"num", "str"} /\ f.s \in DOMAIN FloatLiterals

NoneData == [present |-> FALSE, avg_split |-> "", avg_distance |-> ""]

\* class Data(BaseModel): both floats are required
Data(d) ==
  IF IsFloat(d.avg_split) /\ IsFloat(d.avg_distance)
    THEN [ok |-> TRUE,
          v |-> [present |-> TRUE,
                 avg_split |-> FloatLiterals[d.avg_split.s],
                 avg_distance |-> FloatLiterals[d.avg_distance.s]]]
    ELSE [ok |-> FALSE, v |-> NoneData]

\* data: Union[Data, None] = None
OptionalData(d) ==
  CASE d.t \in {"missing", "null"} -> [ok |-> TRUE, v |-> NoneData]
    [] d.t = "obj" -> Data(d)
    [] OTHER -> [ok |-> FALSE, v |-> NoneData]

NoHistory == [athlete_type |-> "", data |-> NoneData, description |-> ""]

\* ExerciseHistory with `description` optional: a body without a usable
\* description is taken with an empty one
ExerciseHistoryDescriptionOptional(b) ==
  LET d == OptionalData(b.data) IN
  IF IsStr(b.athlete_type) /\ d.ok
    THEN [ok |-> TRUE,
          v |-> [athlete_type |-> b.athlete_type.s, data |-> d.v,
                 description |-> IF IsStr(b.description) THEN b.description.s ELSE ""]]
    ELSE [ok |-> FALSE, v |-> NoHistory]

\* ExerciseHistory with a validator that refuses `data` for athlete_type "Other"
ExerciseHistoryOtherWithoutData(b) ==
  LET d == OptionalData(b.data) IN
  IF IsStr(b.athlete_type) /\ d.ok /\ IsStr(b.description)
       /\ ~(b.athlete_type.s = "Other" /\ d.v.present)
    THEN [ok |-> TRUE,
          v |-> [athlete_type |-> b.athlete_type.s, data |-> d.v,
                 description |-> b.description.s]]
    ELSE [ok |-> FALSE, v |-> NoHistory]

\* class ExerciseHistory(BaseModel): the model built from a body, or a
\* validation error
ExerciseHistory(b) ==
  LET d == OptionalData(b.data) IN
  IF IsStr(b.athlete_type) /\ d.ok /\ IsStr(b.description)
    THEN [ok |-> TRUE,
          v |-> [athlete_type |-> b.athlete_type.s, data |-> d.v,
                 description |-> b.description.s]]
    ELSE [ok |-> FALSE, v |-> NoHistory]

\* str(exerciseHistory): the rendering of the model's fields, as text pieces
Str(h) ==
  << "athlete_type='", h.athlete_type, "' data=" >>
  \o (IF h.data.present
        THEN << "Data(avg_split=", h.data.avg_split,
                ", avg_distance=", h.data.avg_distance, ")" >>
        ELSE << "None" >>)
  \o << " description='", h.description, "'" >>

(* ------------------- the external completion service ------------------- *)

\* What client.chat.completions.create hands back: a completion (kind
\* "response") with `choices` choices, the first of which has a tool call
\* carrying `arguments` when tool_calls is TRUE; or the exception it raised
\* (kind "exception"), tagged with the attempt that raised it.
NoResponse ==
  [kind |-> "none", attempt |-> 0, choices |-> 0, tool_calls |-> FALSE, arguments |-> <<>>]

APIError(n) ==
  [kind |-> "exception", attempt |-> n, choices |-> 0, tool_calls |-> FALSE, arguments |-> <<>>]

Completion(choices, tool_calls, arguments) ==
  [kind |-> "response", attempt |-> 0, choices |-> choices, tool_calls |-> tool_calls,
   arguments |-> arguments]

Raises(n) == [raises |-> TRUE, value |-> APIError(n)]
Returns(c) == [raises |-> FALSE, value |-> c]

\* JSON texts of single activities
Squats ==
  << "{", "\"activityName\"", ":", "\"Squats\"", ",", "\"day\"", ":", "\"Tuesday\"", ",",
     "\"sets\"", ":", "4", ",", "\"reps\"", ":", "12", "}" >>

BenchPress ==
  << "{", "\"activityName\"", ":", "\"Bench Press\"", ",",
     "\"description\"", ":", "\"Upper Body Strength\"", ",", "\"day\"", ":", "\"Monday\"", "}" >>

ActivityPool == {Squats, BenchPress}

\* the lists of up to MaxActivities activities with activity a at the odd
\* places and activity b at the even ones
ActivityLists ==
  { [i \in 1..n |-> IF i % 2 = 1 THEN ab[1] ELSE ab[2]] :
      n \in 0..MaxActivities, ab \in ActivityPool \X ActivityPool }

RECURSIVE JoinFrom(_, _)
JoinFrom(acts, i) ==
  IF i > Len(acts) THEN <<>>
  ELSE (IF i > 1 THEN <<",">> ELSE <<>>) \o acts[i] \o JoinFrom(acts, i + 1)

\* the JSON text [a1,a2,...]
ArrayText(acts) == <<"[">> \o JoinFrom(acts, 1) \o <<"]">>

\* the JSON text {"activities":[a1,a2,...]}
ArgumentsText(acts) == << "{", "\"activities\"", ":" >> \o ArrayText(acts) \o << "}" >>

\* the same with other members around the array
ArgumentsTextWithNotes(acts) ==
  << "{", "\"note\"", ":", "\"plan\"", ",", "\"activities\"", ":" >> \o ArrayText(acts)
     \o << ",", "\"sets\"", ":", "0", "}" >>

WellFormedArguments ==
  { ArgumentsText(acts) : acts \in ActivityLists }
    \cup { ArgumentsTextWithNotes(<<BenchPress>>) }

MalformedArguments ==
  { << "Sure", "!" >>,
    << "{", "\"activities\"", ":", "[" >> \o Squats,
    << "{", "\"note\"", ":", "\"plan\"", "}" >>,
    ArrayText(<<Squats>>) }

Completions ==
  { Completion(1, FALSE, <<>>) }
    \cup { Completion(1, TRUE, a) : a \in WellFormedArguments \cup MalformedArguments }

\* The stub standing for the service: what its n-th call for one request does.
\*   "any"          - any outcome
\*   "raise_twice"  - raises on the first two calls, then replies well
\*   "raise_always" - raises on every call
StubModes == {"any", "raise_twice", "raise_always"}

Outcomes(mode, n) ==
  CASE mode = "any" -> {Raises(n)} \cup { Returns(c) : c \in Completions }
    [] mode = "raise_twice" ->
         IF n < 3 THEN {Raises(n)}
         ELSE { Returns(Completion(1, TRUE, a)) : a \in WellFormedArguments }
    [] mode = "raise_always" -> {Raises(n)}

(* -------------------------------- state -------------------------------- *)

VARIABLES
  stub,             \* how the stubbed service behaves in this run
  globals,          \* the module-level objects TOOLS, SYSTEM_PROMPT, client
  loop,             \* the request whose handler occupies the event loop, or 0
  pc,               \* per request: idle, received, calling, awaiting, done
  body,             \* per request: the posted JSON body
  exerciseHistory,  \* per request: the validated model handed to read_root
  messages,         \* per request: read_root's local list `messages`
  sent,             \* per request: the calls made to the service, in order
  chat_response,    \* per request: what chat_completion_request returned
  http              \* per request: the HTTP response

vars ==
  << stub, globals, loop, pc, body, exerciseHistory, messages, sent, chat_response, http >>

Globals == [TOOLS |-> TOOLS, SYSTEM_PROMPT |-> SYSTEM_PROMPT, client |-> client]

NoHttp == [status |-> 0, body |-> <<>>, error |-> ""]
HttpError(status, error) == [status |-> status, body |-> <<>>, error |-> error]
HttpOk(text) == [status |-> 200, body |-> text, error |-> ""]

(* ------------------------------ read_root ------------------------------ *)

\* `messages` kept as one module-level list: every request appends to what
\* the requests before it left there
MessagesShared(g, h) ==
  (IF \E q \in Reqs : messages[q] # <<>>
     THEN messages[CHOOSE q \in Reqs : messages[q] # <<>>]
     ELSE <<>>)
  \o << [role |-> "system", content |-> <<g.SYSTEM_PROMPT>>],
        [role |-> "user", content |-> Str(h)] >>

\* messages = []; two appends: the system prompt, then str(exerciseHistory)
Messages(g, h) ==
  << [role |-> "system", content |-> <<g.SYSTEM_PROMPT>>],
     [role |-> "user", content |-> Str(h)] >>

\* tools=None, tool_choice=None of chat_completion_request's signature
None == [type |-> "none", function |-> [name |-> ""]]

\* the call made without tool_choice, leaving the signature's default
CreateKwargsDefaultChoice(g, msgs) ==
  [model |-> GPT_MODEL, messages |-> msgs, tools |-> g.TOOLS, tool_choice |-> None]

\* the keyword arguments read_root's call makes chat_completion_request pass
\* to client.chat.completions.create
CreateKwargs(g, msgs) ==
  [model |-> GPT_MODEL,
   messages |-> msgs,
   tools |-> g.TOOLS,
   tool_choice |-> [type |-> "function", function |-> [name |-> "get_workout_program"]]]

\* chat_completion_request letting the exception out (`raise` in the handler)
chat_completion_request_raising(outcome) ==
  IF outcome.raises
    THEN [raised |-> TRUE, value |-> outcome.value]
    ELSE [raised |-> FALSE, value |-> outcome.value]

\* the body of chat_completion_request: the response is returned, and so is
\* an exception the call raised; nothing leaves the function as a raise
chat_completion_request(outcome) ==
  IF outcome.raises
    THEN [raised |-> FALSE, value |-> outcome.value]
    ELSE [raised |-> FALSE, value |-> outcome.value]

\* @retry(..., stop=stop_after_attempt(3)) after attempt n gave `result`
retry(result, n) ==
  IF ~result.raised THEN "return"
  ELSE IF n < stop_after_attempt THEN "retry"
  ELSE "RetryError"

\* read_root returning the whole parsed object (`return activities`)
ExtractWholeObject(cr) ==
  IF cr.kind # "response" THEN HttpError(500, "AttributeError")
  ELSE IF cr.choices = 0 THEN HttpError(500, "IndexError")
  ELSE IF ~cr.tool_calls THEN HttpError(500, "TypeError")
  ELSE
    LET activities == json_loads(cr.arguments) IN
    IF ~activities.ok THEN HttpError(500, "JSONDecodeError")
    ELSE IF activities.v.t # "obj" THEN HttpError(500, "TypeError")
    ELSE IF ~\E i \in 1..Len(activities.v.ks) : activities.v.ks[i] = "activities"
      THEN HttpError(500, "KeyError")
    ELSE HttpOk(json_dumps(activities.v))

\* read_root answering an empty list when the arguments do not parse
ExtractEmptyOnBadJson(cr) ==
  IF cr.kind # "response" THEN HttpError(500, "AttributeError")
  ELSE IF cr.choices = 0 THEN HttpError(500, "IndexError")
  ELSE IF ~cr.tool_calls THEN HttpError(500, "TypeError")
  ELSE
    LET activities == json_loads(cr.arguments) IN
    IF ~activities.ok THEN HttpOk(<< "[", "]" >>)
    ELSE IF activities.v.t # "obj" THEN HttpError(500, "TypeError")
    ELSE IF ~\E i \in 1..Len(activities.v.ks) : activities.v.ks[i] = "activities"
      THEN HttpError(500, "KeyError")
    ELSE HttpOk(json_dumps(activities.v.xs[IndexOf(activities.v.ks, "activities")]))

\* json.loads(chat_response.choices[0].message.tool_calls[0].function.arguments)
\* and return activities["activities"], written as the HTTP response
Extract(cr) ==
  IF cr.kind # "response" THEN HttpError(500, "AttributeError")
  ELSE IF cr.choices = 0 THEN HttpError(500, "IndexError")
  ELSE IF ~cr.tool_calls THEN HttpError(500, "TypeError")
  ELSE
    LET activities == json_loads(cr.arguments) IN
    IF ~activities.ok THEN HttpError(500, "JSONDecodeError")
    ELSE IF activities.v.t # "obj" THEN HttpError(500, "TypeError")
    ELSE IF ~\E i \in 1..Len(activities.v.ks) : activities.v.ks[i] = "activities"
      THEN HttpError(500, "KeyError")
    ELSE HttpOk(json_dumps(activities.v.xs[IndexOf(activities.v.ks, "activities")]))

(* ------------------------------- actions ------------------------------- *)

Init ==
  /\ stub \in StubModes
  /\ globals = Globals
  /\ loop = 0
  /\ pc = [r \in Reqs |-> "idle"]
  /\ body = [r \in Reqs |-> NoBody]
  /\ exerciseHistory = [r \in Reqs |-> NoHistory]
  /\ messages = [r \in Reqs |-> <<>>]
  /\ sent = [r \in Reqs |-> <<>>]
  /\ chat_response = [r \in Reqs |-> NoResponse]
  /\ http = [r \in Reqs |-> NoHttp]

\* a client posts body b to /workout; requests are numbered in the order
\* in which they arrive
PostWorkout(r, b) ==
  /\ pc[r] = "idle"
  /\ \A q \in Reqs : q < r => pc[q] # "idle"
  /\ pc' = [pc EXCEPT ![r] = "received"]
  /\ body' = [body EXCEPT ![r] = b]
  /\ UNCHANGED << stub, globals, loop, exerciseHistory, messages, sent, chat_response, http >>

\* The event loop picks the request up: the body is validated against
\* ExerciseHistory; a validation error is answered with 422, otherwise
\* read_root starts and runs to its call of chat_completion_request.
\* read_root is `async def` and awaits nothing, so it keeps the loop until
\* it returns.
ReadRoot(r) ==
  /\ pc[r] = "received"
  /\ loop = 0
  /\ LET m == ExerciseHistory(body[r]) IN
     IF ~m.ok
       THEN /\ http' = [http EXCEPT ![r] = HttpError(422, "ValidationError")]
            /\ pc' = [pc EXCEPT ![r] = "done"]
            /\ UNCHANGED << loop, exerciseHistory, messages >>
       ELSE /\ exerciseHistory' = [exerciseHistory EXCEPT ![r] = m.v]
            /\ messages' = [messages EXCEPT ![r] = Messages(globals, m.v)]
            /\ pc' = [pc EXCEPT ![r] = "calling"]
            /\ loop' = r
            /\ UNCHANGED http
  /\ UNCHANGED << stub, globals, body, sent, chat_response >>

\* one attempt: client.chat.completions.create(...) is called
Create(r) ==
  /\ pc[r] = "calling"
  /\ loop = r
  /\ sent' = [sent EXCEPT ![r] = Append(@, CreateKwargs(globals, messages[r]))]
  /\ pc' = [pc EXCEPT ![r] = "awaiting"]
  /\ UNCHANGED << stub, globals, loop, body, exerciseHistory, messages, chat_response, http >>

\* The service answers the pending call (a completion or an exception).
\* chat_completion_request's body handles it, the retry decorator decides,
\* and on a return read_root extracts the activities and responds.
Answer(r, outcome) ==
  /\ pc[r] = "awaiting"
  /\ loop = r
  /\ LET result == chat_completion_request(outcome)
         decision == retry(result, Len(sent[r]))
     IN
     CASE decision = "retry" ->
            /\ pc' = [pc EXCEPT ![r] = "calling"]
            /\ UNCHANGED << loop, chat_response, http >>
       [] decision = "RetryError" ->
            /\ http' = [http EXCEPT ![r] = HttpError(500, "RetryError")]
            /\ pc' = [pc EXCEPT ![r] = "done"]
            /\ loop' = 0
            /\ UNCHANGED chat_response
       [] decision = "return" ->
            /\ chat_response' = [chat_response EXCEPT ![r] = result.value]
            /\ http' = [http EXCEPT ![r] = Extract(result.value)]
            /\ pc' = [pc EXCEPT ![r] = "done"]
            /\ loop' = 0
  /\ UNCHANGED << stub, globals, body, exerciseHistory, messages, sent >>

Next ==
  \E r \in Reqs :
    \/ \E b \in Bodies : PostWorkout(r, b)
    \/ ReadRoot(r)
    \/ Create(r)
    \/ \E outcome \in Outcomes(stub, Len(sent[r])) : Answer(r, outcome)

Spec == Init /\ [][Next]_vars

TypeOK ==
  /\ stub \in StubModes
  /\ loop \in {0} \cup Reqs
  /\ \A r \in Reqs :
       /\ pc[r] \in {"idle", "received", "calling", "awaiting", "done"}
       /\ http[r].status \in {0, 200, 422, 500}
       /\ Len(sent[r]) <= stop_after_attempt

(* ------------------------------- claims -------------------------------- *)

Validated(r) == pc[r] = "done" /\ http[r].status # 422

\* the JSON texts of the objects with an `activities` array, each with the
\* text of its array
ArgumentsWithArray ==
  UNION { { [arguments |-> ArgumentsText(acts), array |-> ArrayText(acts)],
            [arguments |-> ArgumentsTextWithNotes(acts), array |-> ArrayText(acts)] } :
          acts \in ActivityLists }

\* C1: with a service that raises on the first two calls of a request and
\* succeeds on the third, a validated request ends with exactly 3 calls made
\* and a 200 response carrying the activities of the third reply.
C1_ThirdAttemptSucceeds ==
  \A r \in Reqs :
    (stub = "raise_twice" /\ Validated(r)) =>
      /\ Len(sent[r]) = 3
      /\ http[r].status = 200
      /\ \E w \in ArgumentsWithArray :
           chat_response[r].arguments = w.arguments /\ http[r].body = w.array

\* C2: with a service that raises on every call, chat_completion_request
\* makes 3 attempts and returns the exception of the third one to read_root.
C2_LastExceptionReturned ==
  \A r \in Reqs :
    (stub = "raise_always" /\ Validated(r)) =>
      /\ Len(sent[r]) = 3
      /\ chat_response[r] = APIError(3)

\* a required field is missing or a field has the wrong type
NotAFloat(f) == f.t \notin {"num", "str"} \/ (f.t = "str" /\ f.s \notin DOMAIN FloatLiterals)

FailsValidation(b) ==
  \/ b.athlete_type.t # "str"
  \/ b.description.t # "str"
  \/ b.data.t \notin {"missing", "null", "obj"}
  \/ b.data.t = "obj" /\ (NotAFloat(b.data.avg_split) \/ NotAFloat(b.data.avg_distance))

\* C3: a request whose body fails validation never reaches the handler: no
\* call to the service is ever made for it, nothing is retried, and it ends
\* in the 422 validation error response.
C3_InvalidBodyNeverCalls ==
  \A r \in Reqs :
    (pc[r] # "idle" /\ FailsValidation(body[r])) =>
      /\ sent[r] = <<>>
      /\ loop # r
      /\ pc[r] \in {"received", "done"}
      /\ pc[r] = "done" => http[r] = HttpError(422, "ValidationError")

C3_Witness ==
  \E r, q \in Reqs :
    /\ pc[r] = "done" /\ FailsValidation(body[r]) /\ http[r].status = 422
    /\ body[r].description.t = "missing"
    /\ sent[q] # <<>>

\* C4: when the reply's first tool call carries the JSON text of an object
\* with an `activities` array, the response is 200 and its body is exactly
\* the text of that array: same elements, same order, no envelope.
C4_RoundTrip ==
  \A r \in Reqs :
    ( /\ Validated(r)
      /\ chat_response[r].kind = "response"
      /\ chat_response[r].choices > 0
      /\ chat_response[r].tool_calls )
    => \A w \in ArgumentsWithArray :
         chat_response[r].arguments = w.arguments => http[r] = HttpOk(w.array)

C4_Witness ==
  \E r, q \in Reqs :
    /\ Validated(r)
    /\ chat_response[r].arguments = ArgumentsText(<<Squats, BenchPress>>)
    /\ http[r] = HttpOk(ArrayText(<<Squats, BenchPress>>))
    /\ Validated(q)
    /\ chat_response[q].arguments = ArgumentsTextWithNotes(<<BenchPress>>)
    /\ http[q].status = 200

\* C5: every call sent to the service carries the TOOLS list, whose only
\* function is get_workout_program, and a tool_choice pinned to that function.
C5_ToolChoicePinned ==
  \A r \in Reqs :
    \A i \in 1..Len(sent[r]) :
      /\ sent[r][i].tools = TOOLS
      /\ \A j \in 1..Len(sent[r][i].tools) :
           sent[r][i].tools[j].function.name = "get_workout_program"
      /\ sent[r][i].tool_choice.type = "function"
      /\ sent[r][i].tool_choice.function.name = "get_workout_program"

C5_Witness ==
  \A r \in Reqs : pc[r] = "done" /\ Len(sent[r]) = 1

\* the call raised, the reply has no tool call, or its arguments are not the
\* JSON text of an object with an `activities` key
DownstreamFailure(r) ==
  \/ chat_response[r].kind # "response"
  \/ chat_response[r].choices = 0
  \/ ~chat_response[r].tool_calls
  \/ chat_response[r].arguments \in MalformedArguments

\* C6: a validated request with a downstream failure ends in a 500 response,
\* never in a 200 and never with a list as its body.
C6_FailureIs500 ==
  \A r \in Reqs :
    (Validated(r) /\ DownstreamFailure(r)) =>
      /\ http[r].status = 500
      /\ http[r].body = <<>>

C6_Witness ==
  \E r, q \in Reqs :
    /\ Validated(r)
    /\ chat_response[r].arguments = << "Sure", "!" >>
    /\ http[r] = HttpError(500, "JSONDecodeError")
    /\ Validated(q)
    /\ chat_response[q].kind = "exception"
    /\ http[q].status = 500

OtherWithData(b) ==
  /\ b.athlete_type = StrField("Other")
  /\ b.data.t = "obj" /\ b.data.avg_split.t = "num" /\ b.data.avg_distance.t = "num"
  /\ b.description.t = "str"

\* C7: a body with athlete_type "Other", a well-formed data object and a
\* description is accepted: the handler composes the two messages, with the
\* data in the user message, and calls the service.
C7_OtherWithDataAccepted ==
  \A r \in Reqs :
    OtherWithData(body[r]) =>
      /\ http[r].status # 422
      /\ pc[r] \in {"calling", "awaiting", "done"} =>
           /\ exerciseHistory[r].athlete_type = "Other"
           /\ exerciseHistory[r].data.present
           /\ Len(messages[r]) = 2
      /\ pc[r] \in {"awaiting", "done"} =>
           /\ Len(sent[r]) >= 1
           /\ sent[r][1].messages = messages[r]

C7_Witness ==
  \E r \in Reqs :
    /\ OtherWithData(body[r])
    /\ pc[r] = "done"
    /\ Len(sent[r]) = 1
    /\ http[r].status = 200

\* C8: while one request's handler waits for its external call, the handler
\* of another request that has arrived can start.
C8_HandlersOverlap ==
  \A r, q \in Reqs :
    (r # q /\ pc[r] = "awaiting" /\ pc[q] = "received") => ENABLED ReadRoot(q)

\* C9: the module-level objects never change, and every call's messages are
\* exactly two entries: the system prompt, then the rendering of the
\* request's own input.
C9_NoStateAcrossRequests ==
  /\ globals = Globals
  /\ \A r \in Reqs :
       \A i \in 1..Len(sent[r]) :
         /\ Len(sent[r][i].messages) = 2
         /\ sent[r][i].messages[1] = [role |-> "system", content |-> <<SYSTEM_PROMPT>>]
         /\ sent[r][i].messages[2].role = "user"
         /\ sent[r][i].messages[2].content = Str(ExerciseHistory(body[r]).v)

C9_Witness ==
  \E r, q \in Reqs :
    /\ pc[q] = "done" /\ sent[q] # <<>>
    /\ pc[r] = "awaiting" /\ sent[r] # <<>>
    /\ body[r] # body[q]

\* C10: the retry decorator never sees a failed attempt: no request is ever
\* sent back to call again, and every validated request ends with exactly
\* one call made, an exception of that call being handed to read_root as
\* the returned value.
C10_ExactlyOneCall ==
  \A r \in Reqs :
    /\ Len(sent[r]) <= 1
    /\ pc[r] = "calling" => sent[r] = <<>>
    /\ Validated(r) =>
         /\ Len(sent[r]) = 1
         /\ chat_response[r].kind \in {"response", "exception"}
         /\ http[r].error # "RetryError"

C10_Witness ==
  \E r, q \in Reqs :
    /\ Validated(r) /\ chat_response[r] = APIError(1) /\ Len(sent[r]) = 1
    /\ Validated(q) /\ http[q].error = "JSONDecodeError" /\ Len(sent[q]) = 1

====
